---- MODULE Spec2Model ----
(***************************************************************************)
(* A model of the minion crate (src/src/lib.rs): the Cancellable trait     *)
(* with its two drivers run() and spawn(), the Handle returned by spawn()  *)
(* and the Canceller capabilities that share the loop's AtomicBool.        *)
(*                                                                         *)
(* A work unit (an implementation of Cancellable::for_each) is described   *)
(* by the results of its successive calls: `conts` times Ok(Continue) and  *)
(* from then on `last`, which is Ok(Continue), Ok(Break), Err(e) or a      *)
(* panic.  One Service is like the accept loop of the tests: each for_each *)
(* call blocks until a connection arrives and then returns Ok(Continue).   *)
(* The program holds instances of one Service: one is driven by run() on   *)
(* the calling thread, another is handed to spawn().  A program may hold a *)
(* second Service and hand it to a second spawn().                         *)
(***************************************************************************)
EXTENDS Naturals, Sequences, FiniteSets

\* ------------------------------------------------------------------ bounds
\* The longest run of Ok(Continue) a work unit returns before its last result.
MaxConts == 2
\* How many Canceller values (canceller() results and clones) may exist.
MaxCancellers == 2
\* How many cancel() calls are made on one flag.
MaxCancels == 2

\* A loop is followed for at most this many for_each calls: two more than any
\* work unit needs to reach its last result.
MaxCalls == MaxConts + 2

\* ------------------------------------------------------- values of the code
\* The loops started with spawn().
LoopIds == {1, 2}
\* The Service instance that run() is called on, and all the instances.
RunId == 0
ServiceIds == {RunId} \cup LoopIds
CancellerIds == 1..MaxCancellers

\* Result<LoopState, Error> of for_each, or a panic inside it.
Errors == {"Err1", "Err2"}
Outcomes == {"Continue", "Break", "Panic"} \cup Errors

\* The payload a panicking for_each unwinds with (a Box<dyn Any + Send>),
\* written as the sequence of its layers, outermost first.
PanicPayload == <<"boom">>
NoPayload == << >>

\* Result<(), Error> of a loop; "none" while there is none yet.
Results == {"Ok"} \cup Errors

\* The work units: conts times Ok(Continue), then `last` on every later call.
\* A unit that blocks waits in each for_each call for an event (the tests'
\* Service: accept(), write, Ok(Continue)).
Units ==
    {[conts |-> k, last |-> o, blocks |-> FALSE] :
         k \in 0..MaxConts, o \in Outcomes \ {"Continue"}}
        \cup {[conts |-> 0, last |-> "Continue", blocks |-> b] : b \in BOOLEAN}

\* for_each: the result of the n-th call (n >= 1) on work unit u.
ForEach(u, n) == IF n <= u.conts THEN "Continue" ELSE u.last

\* The program has no second Service.
NoUnit == [conts |-> 0, last |-> "none", blocks |-> FALSE]

VARIABLES
    unit,        \* the Service: what its for_each calls return
    unit2,       \* the second Service, NoUnit if the program has none
    run,         \* the run() call on one instance: [pc, calls, result, payload]
    heap,        \* the AtomicBools allocated so far (Arc<AtomicBool>), by address
    thread,      \* per spawned loop: the loop thread
    handle,      \* per spawned loop: the Handle that spawn() returned
    cancellers,  \* per Canceller value: the address of its keep_running, 0 if none
    cancelled,   \* per AtomicBool: the cancel() calls made on it (history)
    origin,      \* per Canceller value: how it was made (history)
    listener     \* per Service instance: events sent to it, and those not yet taken

vars == <<unit, unit2, run, heap, thread, handle, cancellers, cancelled, origin, listener>>

\* The work unit that spawn() number l is called on (and moves into its thread).
UnitOf(l) == IF l = 1 THEN unit ELSE unit2

\* ---------------------------------------------------------------- run()
\* What the match in run() does with the value for_each returned.
RunMatchErr(o) ==
    CASE o = "Continue" -> [next |-> "loop", result |-> "none"]
      [] o = "Break"    -> [next |-> "returned", result |-> "Ok"]
      [] OTHER          -> [next |-> "loop", result |-> "none"]

RunMatch(o) ==
    CASE o = "Continue" -> [next |-> "loop", result |-> "none"]
      [] o = "Break"    -> [next |-> "returned", result |-> "Ok"]
      [] OTHER          -> [next |-> "returned", result |-> o]

\* s.run() is called on the instance kept for it.
RunCall ==
    /\ run.pc = "idle"
    /\ run' = [run EXCEPT !.pc = "loop"]
    /\ UNCHANGED <<unit, unit2, heap, thread, handle, cancellers, cancelled, origin, listener>>

RunForEachBeginCancellable ==
    /\ run.pc = "loop"
    /\ run.calls < MaxCalls
    /\ run' = IF \E a \in 1..Len(heap) : ~heap[a]
              THEN [run EXCEPT !.pc = "returned", !.result = "Ok"]
              ELSE [run EXCEPT !.pc = "in_for_each"]
    /\ UNCHANGED <<unit, unit2, heap, thread, handle, cancellers, cancelled, origin, listener>>

\* The loop of run() enters for_each; run.calls counts the calls that returned.
RunForEachBegin ==
    /\ run.pc = "loop"
    /\ run.calls < MaxCalls
    /\ run' = [run EXCEPT !.pc = "in_for_each"]
    /\ UNCHANGED <<unit, unit2, heap, thread, handle, cancellers, cancelled, origin, listener>>

\* for_each returns (or panics) in run() and the match acts on it.  A unit
\* that blocks returns once it has taken an event from its own listener.  A
\* panic in for_each unwinds through run().
RunForEachEnd ==
    /\ run.pc = "in_for_each"
    /\ unit.blocks => listener[RunId].pending > 0
    /\ listener' = IF unit.blocks
                   THEN [listener EXCEPT ![RunId].pending = listener[RunId].pending - 1]
                   ELSE listener
    /\ LET o == ForEach(unit, run.calls + 1)
       IN  run' = IF o = "Panic"
                  THEN [pc |-> "panicked", calls |-> run.calls + 1,
                        result |-> "none", payload |-> PanicPayload]
                  ELSE [pc |-> RunMatch(o).next, calls |-> run.calls + 1,
                        result |-> RunMatch(o).result, payload |-> NoPayload]
    /\ UNCHANGED <<unit, unit2, heap, thread, handle, cancellers, cancelled, origin>>

\* ---------------------------------------------------------------- spawn()
\* Arc::clone of the Arc at address a, with heap hp: the same address, and
\* nothing is allocated.
ArcCopy(a, hp) == [addr |-> Len(hp) + 1, heap |-> Append(hp, hp[a])]

ArcClone(a, hp) == [addr |-> a, heap |-> hp]

\* AtomicBool::new(true)
NewFlagFalse == FALSE

NewFlag == TRUE

NoThread ==
    [pc |-> "unspawned", keep_running |-> 0, calls |-> 0, completed |-> 0,
     result |-> "none", payload |-> NoPayload, why |-> "none"]

NoHandle == [state |-> "none", canceller |-> 0, result |-> "none", payload |-> NoPayload]

\* No cancel() yet on a flag.  After the first one: where the loop thread was
\* when that store was done, who did it and whether wait() was already blocked.
NoCancel ==
    [n |-> 0, pc |-> "none", calls |-> 0, completed |-> 0, via |-> "none",
     waiting |-> FALSE, sent |-> 0, pending |-> 0]

SpawnSharedFlag(l) ==
    /\ thread[l].pc = "unspawned"
    /\ UnitOf(l) # NoUnit
    /\ LET a == 1
       IN  /\ heap' = IF Len(heap) = 0 THEN <<NewFlag>> ELSE heap
           /\ thread' = [thread EXCEPT ![l] = [NoThread EXCEPT !.pc = "check",
                                                              !.keep_running = a]]
           /\ handle' = [handle EXCEPT ![l] = [NoHandle EXCEPT !.state = "held",
                                                              !.canceller = a]]
           /\ cancelled' = IF Len(heap) = 0 THEN <<NoCancel>> ELSE cancelled
    /\ UNCHANGED <<unit, unit2, run, cancellers, origin, listener>>

\* s.spawn(): a fresh flag, the loop thread started on it, the Handle returned.
Spawn(l) ==
    /\ thread[l].pc = "unspawned"
    /\ UnitOf(l) # NoUnit
    /\ LET a == Len(heap) + 1
           moved == ArcClone(a, Append(heap, NewFlag))
       IN  /\ heap' = moved.heap
           /\ thread' = [thread EXCEPT ![l] = [NoThread EXCEPT !.pc = "check",
                                                              !.keep_running = moved.addr]]
           /\ handle' = [handle EXCEPT ![l] = [NoHandle EXCEPT !.state = "held",
                                                              !.canceller = a]]
           /\ cancelled' = Append(cancelled, NoCancel)
    /\ UNCHANGED <<unit, unit2, run, cancellers, origin, listener>>

\* The condition of the while loop, from the value keep_running.load() gave.
WhileIgnoresFlag(v) == TRUE

WhileNegated(v) == ~v

WhileCond(v) == v

\* What the loop thread does when the while condition is false: Ok(()).
ExitResultErr == "Err1"

ExitResult == "Ok"

LoopCheckResets(l) ==
    /\ thread[l].pc = "check"
    /\ IF WhileCond(heap[thread[l].keep_running])
       THEN /\ thread[l].calls < MaxCalls
            /\ thread' = [thread EXCEPT ![l].pc = "checked"]
            /\ heap' = heap
       ELSE /\ thread' = [thread EXCEPT ![l].pc = "returned",
                                        ![l].result = ExitResult,
                                        ![l].why = "flag"]
            /\ heap' = [heap EXCEPT ![thread[l].keep_running] = TRUE]
    /\ UNCHANGED <<unit, unit2, run, handle, cancellers, cancelled, origin, listener>>

\* The loop thread evaluates the while condition: keep_running.load(SeqCst).
LoopCheck(l) ==
    /\ thread[l].pc = "check"
    /\ IF WhileCond(heap[thread[l].keep_running])
       THEN /\ thread[l].calls < MaxCalls
            /\ thread' = [thread EXCEPT ![l].pc = "checked"]
       ELSE thread' = [thread EXCEPT ![l].pc = "returned",
                                     ![l].result = ExitResult,
                                     ![l].why = "flag"]
    /\ UNCHANGED <<unit, unit2, run, heap, handle, cancellers, cancelled, origin, listener>>

\* The loop thread enters for_each.
ForEachBegin(l) ==
    /\ thread[l].pc = "checked"
    /\ thread' = [thread EXCEPT ![l].pc = "in_for_each",
                                ![l].calls = thread[l].calls + 1]
    /\ UNCHANGED <<unit, unit2, run, heap, handle, cancellers, cancelled, origin, listener>>

\* What the match in the spawned closure does with the value for_each returned.
SpawnMatchRetry(o) ==
    CASE o = "Continue" -> [next |-> "check", result |-> "none", why |-> "none"]
      [] o = "Break"    -> [next |-> "returned", result |-> "Ok", why |-> "break"]
      [] OTHER          -> [next |-> "check", result |-> "none", why |-> "none"]

SpawnMatch(o) ==
    CASE o = "Continue" -> [next |-> "check", result |-> "none", why |-> "none"]
      [] o = "Break"    -> [next |-> "returned", result |-> "Ok", why |-> "break"]
      [] OTHER          -> [next |-> "returned", result |-> o, why |-> "err"]

ForEachEndAbort(l) ==
    /\ thread[l].pc = "in_for_each"
    /\ UnitOf(l).blocks => listener[l].pending > 0
    /\ listener' = IF UnitOf(l).blocks
                   THEN [listener EXCEPT ![l].pending = listener[l].pending - 1]
                   ELSE listener
    /\ LET o == ForEach(UnitOf(l), thread[l].calls)
       IN  thread' = IF ~heap[thread[l].keep_running]
                     THEN [thread EXCEPT ![l].pc = "returned",
                                         ![l].result = "Ok",
                                         ![l].why = "flag"]
                     ELSE IF o = "Panic"
                     THEN [thread EXCEPT ![l].pc = "panicked",
                                         ![l].completed = thread[l].completed + 1,
                                         ![l].payload = PanicPayload,
                                         ![l].why = "panic"]
                     ELSE [thread EXCEPT ![l].pc = SpawnMatch(o).next,
                                         ![l].completed = thread[l].completed + 1,
                                         ![l].result = SpawnMatch(o).result,
                                         ![l].why = SpawnMatch(o).why]
    /\ UNCHANGED <<unit, unit2, run, heap, handle, cancellers, cancelled, origin>>

\* for_each returns (or panics) and the loop thread acts on it.  Nothing but
\* the work unit decides when this happens: the flag is not read here.  A
\* unit that blocks returns once it has taken an event.
ForEachEnd(l) ==
    /\ thread[l].pc = "in_for_each"
    /\ UnitOf(l).blocks => listener[l].pending > 0
    /\ listener' = IF UnitOf(l).blocks
                   THEN [listener EXCEPT ![l].pending = listener[l].pending - 1]
                   ELSE listener
    /\ LET o == ForEach(UnitOf(l), thread[l].calls)
       IN  thread' = IF o = "Panic"
                     THEN [thread EXCEPT ![l].pc = "panicked",
                                         ![l].completed = thread[l].completed + 1,
                                         ![l].payload = PanicPayload,
                                         ![l].why = "panic"]
                     ELSE [thread EXCEPT ![l].pc = SpawnMatch(o).next,
                                         ![l].completed = thread[l].completed + 1,
                                         ![l].result = SpawnMatch(o).result,
                                         ![l].why = SpawnMatch(o).why]
    /\ UNCHANGED <<unit, unit2, run, heap, handle, cancellers, cancelled, origin>>

\* ------------------------------------------------------ Handle, Canceller
FirstFree == CHOOSE c \in CancellerIds :
                 /\ cancellers[c] = 0
                 /\ \A d \in CancellerIds : d < c => cancellers[d] # 0

\* h.canceller(): a new Canceller on a clone of the Handle's Arc.
HandleCanceller(l) ==
    /\ handle[l].state = "held"
    /\ \E c \in CancellerIds : cancellers[c] = 0
    /\ cancellers' = [cancellers EXCEPT ![FirstFree] =
                          ArcClone(handle[l].canceller, heap).addr]
    /\ heap' = ArcClone(handle[l].canceller, heap).heap
    /\ origin' = [origin EXCEPT ![FirstFree] = "canceller"]
    /\ UNCHANGED <<unit, unit2, run, thread, handle, cancelled, listener>>

\* c.clone() (derive(Clone)): another Canceller on the same Arc.
CancellerClone(c) ==
    /\ cancellers[c] # 0
    /\ \E d \in CancellerIds : cancellers[d] = 0
    /\ cancellers' = [cancellers EXCEPT ![FirstFree] =
                          ArcClone(cancellers[c], heap).addr]
    /\ heap' = ArcClone(cancellers[c], heap).heap
    /\ origin' = [origin EXCEPT ![FirstFree] = "clone"]
    /\ UNCHANGED <<unit, unit2, run, thread, handle, cancelled, listener>>

\* The value cancel() stores, given the value the flag holds.
StoreToggle(old) == ~old

StoreKeeps(old) == old

StoreValue(old) == FALSE

\* The loop thread that runs on the flag at address a (there is one).
ThreadOf(a) == CHOOSE l \in LoopIds : thread[l].keep_running = a

\* keep_running.store(false, SeqCst) on the flag at address a.  The history
\* keeps the number of stores and where the loop thread was at the first.
Store(a, via) ==
    /\ cancelled[a].n < MaxCancels
    /\ heap' = [heap EXCEPT ![a] = StoreValue(heap[a])]
    /\ cancelled' = [cancelled EXCEPT ![a] =
           IF cancelled[a].n = 0
           THEN [n |-> 1, pc |-> thread[ThreadOf(a)].pc,
                 calls |-> thread[ThreadOf(a)].calls,
                 completed |-> thread[ThreadOf(a)].completed,
                 via |-> via,
                 waiting |-> handle[ThreadOf(a)].state = "joining",
                 sent |-> listener[ThreadOf(a)].sent,
                 pending |-> listener[ThreadOf(a)].pending]
           ELSE [cancelled[a] EXCEPT !.n = cancelled[a].n + 1]]

\* h.cancel(), through Deref to the Handle's own Canceller.
HandleCancel(l) ==
    /\ handle[l].state = "held"
    /\ Store(handle[l].canceller, "handle")
    /\ UNCHANGED <<unit, unit2, run, thread, handle, cancellers, origin, listener>>

\* c.cancel() on a Canceller, from whichever thread holds it.
CancellerCancel(c) ==
    /\ cancellers[c] # 0
    /\ Store(cancellers[c], origin[c])
    /\ UNCHANGED <<unit, unit2, run, thread, handle, cancellers, origin, listener>>

WaitCallCancels(l) ==
    /\ handle[l].state = "held"
    /\ handle' = [handle EXCEPT ![l].state = "joining"]
    /\ heap' = [heap EXCEPT ![handle[l].canceller] = FALSE]
    /\ UNCHANGED <<unit, unit2, run, thread, cancellers, cancelled, origin, listener>>

\* h.wait() is called: the Handle is moved into it and the caller blocks in join().
WaitCall(l) ==
    /\ handle[l].state = "held"
    /\ handle' = [handle EXCEPT ![l].state = "joining"]
    /\ UNCHANGED <<unit, unit2, run, heap, thread, cancellers, cancelled, origin, listener>>

\* join() returns once the thread has terminated.
JoinAnytime(t) == t.pc # "unspawned"

Joinable(t) == t.pc \in {"returned", "panicked"}

\* panic!(e) with e the Box<dyn Any + Send> that join() gave: the new panic's
\* payload is a Box holding that Box.
PanicWith(e) == <<"Box<dyn Any + Send>">> \o e

\* What wait() makes of the value join() returned for thread t.
WaitMatchCancelled(t) ==
    IF ~heap[t.keep_running]
    THEN [state |-> "returned", result |-> "Ok", payload |-> NoPayload]
    ELSE IF t.pc = "returned"
    THEN [state |-> "returned", result |-> t.result, payload |-> NoPayload]
    ELSE [state |-> "panicked", result |-> "none", payload |-> <<"Box<dyn Any + Send>">> \o t.payload]

WaitMatch(t) ==
    IF t.pc = "returned"
    THEN [state |-> "returned", result |-> t.result, payload |-> NoPayload]
    ELSE [state |-> "panicked", result |-> "none", payload |-> PanicWith(t.payload)]

\* join() returns and wait() returns its Ok(r), or panics on its Err(e).
WaitReturn(l) ==
    /\ handle[l].state = "joining"
    /\ Joinable(thread[l])
    /\ handle' = [handle EXCEPT ![l].state = WaitMatch(thread[l]).state,
                                ![l].result = WaitMatch(thread[l]).result,
                                ![l].payload = WaitMatch(thread[l]).payload]
    /\ UNCHANGED <<unit, unit2, run, heap, thread, cancellers, cancelled, origin, listener>>

\* An event for the Service of loop l arrives: the tests' client connects to
\* its listener (connect_assert), which it does again only after it was
\* answered.  The listener lives in the Service, which the loop thread drops
\* when it terminates.
Deliver(l) ==
    /\ UnitOf(l).blocks
    /\ listener[l].pending = 0
    /\ thread[l].pc \notin {"returned", "panicked"}
    /\ listener[l].sent < MaxCalls
    /\ listener' = [listener EXCEPT ![l].sent = listener[l].sent + 1,
                                    ![l].pending = listener[l].pending + 1]
    /\ UNCHANGED <<unit, unit2, run, heap, thread, handle, cancellers, cancelled, origin>>
\* An event for the Service that run() drives arrives, in the same way.
DeliverRun ==
    /\ unit.blocks
    /\ listener[RunId].pending = 0
    /\ run.pc \notin {"returned", "panicked"}
    /\ listener[RunId].sent < MaxCalls
    /\ listener' = [listener EXCEPT ![RunId].sent = listener[RunId].sent + 1,
                                    ![RunId].pending = listener[RunId].pending + 1]
    /\ UNCHANGED <<unit, unit2, run, heap, thread, handle, cancellers, cancelled, origin>>

\* ------------------------------------------------------------ specification
Init ==
    /\ unit \in Units
    /\ unit2 = NoUnit
    /\ run = [pc |-> "idle", calls |-> 0, result |-> "none", payload |-> NoPayload]
    /\ heap = << >>
    /\ thread = [l \in LoopIds |-> NoThread]
    /\ handle = [l \in LoopIds |-> NoHandle]
    /\ cancellers = [c \in CancellerIds |-> 0]
    /\ cancelled = << >>
    /\ origin = [c \in CancellerIds |-> "none"]
    /\ listener = [i \in ServiceIds |-> [sent |-> 0, pending |-> 0]]

Next ==
    \/ RunCall
    \/ RunForEachBegin
    \/ RunForEachEnd
    \/ \E l \in LoopIds : Spawn(l)
    \/ \E l \in LoopIds : LoopCheck(l)
    \/ \E l \in LoopIds : ForEachBegin(l)
    \/ \E l \in LoopIds : ForEachEnd(l)
    \/ \E l \in LoopIds : HandleCanceller(l)
    \/ \E c \in CancellerIds : CancellerClone(c)
    \/ \E l \in LoopIds : HandleCancel(l)
    \/ \E c \in CancellerIds : CancellerCancel(c)
    \/ \E l \in LoopIds : WaitCall(l)
    \/ \E l \in LoopIds : WaitReturn(l)
    \/ \E l \in LoopIds : Deliver(l)
    \/ DeliverRun

Spec == Init /\ [][Next]_vars

\* A program that holds two Services whose for_each returns at once, spawns
\* both, takes Cancellers from the Handles and cancels through the Handles
\* and the Cancellers; it keeps both Handles and calls neither run() nor wait().
UnitsTwo == {u \in Units : ~u.blocks /\ u.conts <= 1 /\ u.last \in {"Continue", "Break"}}

InitTwo ==
    /\ unit \in UnitsTwo
    /\ unit2 \in UnitsTwo
    /\ run = [pc |-> "idle", calls |-> 0, result |-> "none", payload |-> NoPayload]
    /\ heap = << >>
    /\ thread = [l \in LoopIds |-> NoThread]
    /\ handle = [l \in LoopIds |-> NoHandle]
    /\ cancellers = [c \in CancellerIds |-> 0]
    /\ cancelled = << >>
    /\ origin = [c \in CancellerIds |-> "none"]
    /\ listener = [i \in ServiceIds |-> [sent |-> 0, pending |-> 0]]

NextTwo ==
    \/ \E l \in LoopIds : Spawn(l)
    \/ \E l \in LoopIds : LoopCheck(l)
    \/ \E l \in LoopIds : ForEachBegin(l)
    \/ \E l \in LoopIds : ForEachEnd(l)
    \/ \E l \in LoopIds : HandleCanceller(l)
    \/ \E l \in LoopIds : HandleCancel(l)
    \/ \E c \in CancellerIds : CancellerCancel(c)

SpecTwo == InitTwo /\ [][NextTwo]_vars

\* The thread in run() and the loop thread are scheduled, every for_each call
\* returns (the event a blocked call waits for arrives), and a thread blocked
\* in join() is woken when the loop thread has terminated.
RunThread == RunForEachBegin \/ RunForEachEnd

LoopThread(l) == LoopCheck(l) \/ ForEachBegin(l) \/ ForEachEnd(l)

FairSpec ==
    /\ Spec
    /\ WF_vars(RunThread)
    /\ WF_vars(DeliverRun)
    /\ \A l \in LoopIds : WF_vars(LoopThread(l))
    /\ \A l \in LoopIds : WF_vars(WaitReturn(l))
    /\ \A l \in LoopIds : WF_vars(Deliver(l))

\* ------------------------------------------------------------ properties
Spawned(l) == thread[l].pc # "unspawned"

\* The history of cancel() calls on the flag of loop l.
CancelOf(l) == cancelled[thread[l].keep_running]

Terminated(l) == thread[l].pc \in {"returned", "panicked"}

\* The n-th call is the first whose result is not Ok(Continue).
TerminalAt(n) ==
    /\ n >= 1
    /\ \A i \in 1..(n - 1) : ForEach(unit, i) = "Continue"
    /\ ForEach(unit, n) # "Continue"

\* C1: run() on a work unit whose results are zero or more Continue and then
\* Break or Err(e) terminates; it returns Ok(()) after Break and Err(e) with
\* the same e after Err(e); it has then made one for_each call per Continue
\* plus the terminal one, and while it runs every call so far gave Continue.
C1_RunReturnsTerminalItem ==
    /\ [](run.pc = "returned" =>
            /\ TerminalAt(run.calls)
            /\ ForEach(unit, run.calls) \in {"Break"} \cup Errors
            /\ run.result = IF ForEach(unit, run.calls) = "Break"
                            THEN "Ok" ELSE ForEach(unit, run.calls))
    /\ [](run.pc = "loop" => \A i \in 1..run.calls : ForEach(unit, i) = "Continue")
    /\ ((run.pc = "loop" /\ unit.last \in {"Break"} \cup Errors) ~> run.pc = "returned")

\* Continue, Continue, Break: Ok(()) after exactly 3 calls.
C1_Witness ==
    /\ run.pc = "returned"
    /\ run.calls = 3
    /\ run.result = "Ok"
    /\ unit = [conts |-> 2, last |-> "Break", blocks |-> FALSE]

\* C2 as claimed: once a cancel() has completed and no for_each call is in
\* flight, no further for_each call begins.
C2_NoCallBeginsAfterCancel ==
    [][\A l \in LoopIds :
          (/\ Spawned(l)
           /\ CancelOf(l).n >= 1
           /\ thread[l].pc # "in_for_each")
          => thread'[l].calls = thread[l].calls]_vars

\* C2, amended: when the first cancel() completes before the flag check that
\* precedes the next for_each call (the loop thread is at the check, or still
\* inside an earlier call), that next call never happens; and when the thread
\* was at the check, it returns Ok(()) and wait() returns Ok(()).
C2_NoCallAfterCheckedCancel ==
    \A l \in LoopIds :
        (Spawned(l) /\ CancelOf(l).n >= 1 /\ CancelOf(l).pc \in {"check", "in_for_each"})
        => /\ thread[l].calls = CancelOf(l).calls
           /\ CancelOf(l).pc = "check" =>
                /\ thread[l].pc \in {"check", "returned"}
                /\ thread[l].completed = CancelOf(l).completed
                /\ thread[l].pc = "returned" => thread[l].result = "Ok"
                /\ handle[l].state # "panicked"
                /\ handle[l].state = "returned" => handle[l].result = "Ok"

\* cancel() at the check after two calls, then wait(): Ok(()), still two calls.
C2_Witness ==
    \E l \in LoopIds :
        /\ Spawned(l)
        /\ CancelOf(l).n >= 1
        /\ CancelOf(l).pc = "check"
        /\ CancelOf(l).calls = 2
        /\ thread[l].calls = 2
        /\ handle[l].state = "returned"
        /\ handle[l].result = "Ok"

\* C3: after a cancel() has returned, at most one for_each call completes
\* before the loop thread returns: a call that completes after the cancel was
\* in flight at the cancel or had its flag check done before it.
C3_AtMostOneMoreCall ==
    \A l \in LoopIds :
        (Spawned(l) /\ CancelOf(l).n >= 1)
        => /\ thread[l].completed <= CancelOf(l).completed + 1
           /\ thread[l].calls <= CancelOf(l).completed + 1
           /\ thread[l].completed > CancelOf(l).completed
                => CancelOf(l).pc \in {"checked", "in_for_each"}

\* The cancel came between the flag check and the call; the call completed
\* and the thread returned.
C3_Witness ==
    \E l \in LoopIds :
        /\ Spawned(l)
        /\ CancelOf(l).n >= 1
        /\ CancelOf(l).pc = "checked"
        /\ thread[l].completed = CancelOf(l).completed + 1
        /\ thread[l].pc = "returned"
        /\ thread[l].why = "flag"

\* C4: a for_each call in flight at the first cancel() runs to completion and
\* the loop acts on its outcome: Err(e) makes the thread and wait() return
\* Err(e), Continue or Break make them return Ok(()); no call follows it.
C4_InFlightCallCompletes ==
    \A l \in LoopIds :
        (Spawned(l) /\ CancelOf(l).n >= 1 /\ CancelOf(l).pc = "in_for_each")
        => LET o == ForEach(unit, CancelOf(l).calls)
           IN  /\ thread[l].calls = CancelOf(l).calls
               /\ thread[l].pc \in {"in_for_each", "check", "returned", "panicked"}
               /\ thread[l].pc = "in_for_each"
                    => thread[l].completed = CancelOf(l).completed
               /\ thread[l].pc # "in_for_each"
                    => thread[l].completed = CancelOf(l).completed + 1
               /\ thread[l].pc = "check" => o = "Continue"
               /\ thread[l].pc = "returned"
                    => thread[l].result = IF o \in Errors THEN o ELSE "Ok"
               /\ thread[l].pc = "panicked" => o = "Panic"
               /\ handle[l].state = "returned"
                    => handle[l].result = IF o \in Errors THEN o ELSE "Ok"

\* cancel() during the first call, which then returns Err2: wait() gives Err2.
C4_Witness ==
    \E l \in LoopIds :
        /\ Spawned(l)
        /\ CancelOf(l).n >= 1
        /\ CancelOf(l).pc = "in_for_each"
        /\ ForEach(unit, CancelOf(l).calls) = "Err2"
        /\ thread[l].completed = CancelOf(l).completed + 1
        /\ handle[l].state = "returned"
        /\ handle[l].result = "Err2"

\* C5: when every for_each call returns, a loop on which cancel() was called
\* returns at its next flag check and so eventually terminates, and a wait() on its Handle eventually returns (or
\* panics with the loop), also when the handle's owner was already blocked in
\* wait() and the cancel() came through a Canceller.
C5_CancelledLoopTerminates ==
    /\ [][\A l \in LoopIds :
             (/\ Spawned(l)
              /\ CancelOf(l).n >= 1
              /\ thread[l].pc = "check"
              /\ thread'[l] # thread[l]) => thread'[l].pc = "returned"]_vars
    /\ \A l \in LoopIds :
          /\ (Spawned(l) /\ CancelOf(l).n >= 1) ~> Terminated(l)
          /\ (Spawned(l) /\ CancelOf(l).n >= 1 /\ handle[l].state = "joining")
                ~> handle[l].state \in {"returned", "panicked"}

\* A Canceller cancelled a loop of Continue while wait() was blocked; the
\* loop then returned and so did wait().
C5_Witness ==
    \E l \in LoopIds :
        /\ Spawned(l)
        /\ unit.last = "Continue"
        /\ CancelOf(l).n >= 1
        /\ CancelOf(l).via = "canceller"
        /\ CancelOf(l).waiting
        /\ thread[l].pc = "returned"
        /\ handle[l].state = "returned"

\* C6: wait() returns only after the loop thread has terminated, and what it
\* returns is the thread's result: Ok(()) after Break or after reading the
\* flag false, Err(e) after a for_each that returned Err(e).
C6_WaitReturnsThreadResult ==
    \A l \in LoopIds :
        /\ handle[l].state \in {"returned", "panicked"} => Terminated(l)
        /\ handle[l].state = "returned"
             => /\ thread[l].pc = "returned"
                /\ handle[l].result = thread[l].result
                /\ thread[l].why \in {"break", "flag"} => handle[l].result = "Ok"
                /\ thread[l].why = "err"
                     => /\ handle[l].result \in Errors
                        /\ handle[l].result = ForEach(unit, thread[l].calls)

\* wait() returned the Err1 of the third call.
C6_Witness ==
    \E l \in LoopIds :
        /\ handle[l].state = "returned"
        /\ handle[l].result = "Err1"
        /\ thread[l].calls = 3

\* C7: once a for_each call of the spawned loop has returned Err(e), the
\* thread has returned Err(e), no further call was made, and wait() returns
\* that Err(e), wherever a cancel() fell.
C7_ErrStopsLoop ==
    \A l \in LoopIds :
        (/\ Spawned(l)
         /\ thread[l].completed >= 1
         /\ ForEach(unit, thread[l].completed) \in Errors)
        => /\ thread[l].pc = "returned"
           /\ thread[l].calls = thread[l].completed
           /\ thread[l].result = ForEach(unit, thread[l].completed)
           /\ handle[l].state # "panicked"
           /\ handle[l].state = "returned"
                => handle[l].result = ForEach(unit, thread[l].completed)

\* cancel() fell between the flag check and the call that returned Err1.
C7_Witness ==
    \E l \in LoopIds :
        /\ Spawned(l)
        /\ CancelOf(l).n >= 1
        /\ CancelOf(l).pc = "checked"
        /\ thread[l].completed = 2
        /\ ForEach(unit, 2) = "Err1"
        /\ handle[l].state = "returned"
        /\ handle[l].result = "Err1"

\* C8: when a for_each call of the spawned loop panics, wait() panics with
\* the same payload (it returns neither Ok nor Err).
C8_WaitPanicsWithSamePayload ==
    \A l \in LoopIds :
        /\ (thread[l].pc = "panicked" /\ handle[l].state \in {"returned", "panicked"})
             => /\ handle[l].state = "panicked"
                /\ handle[l].result = "none"
        /\ handle[l].state = "panicked" => handle[l].payload = thread[l].payload

\* C9: a loop that terminated because its flag check read false returned
\* Ok(()), as after Break; it returned Err(e) only when its last for_each call
\* returned Err(e).
C9_CancelIsNotAnError ==
    \A l \in LoopIds :
        thread[l].pc = "returned"
        => /\ thread[l].why \in {"flag", "break"} => thread[l].result = "Ok"
           /\ thread[l].result \in Errors
                => /\ thread[l].why = "err"
                   /\ thread[l].calls >= 1
                   /\ thread[l].completed = thread[l].calls
                   /\ ForEach(unit, thread[l].calls) = thread[l].result

\* A loop whose next call would have returned Err1 was cancelled: Ok(()).
C9_Witness ==
    \E l \in LoopIds :
        /\ thread[l].pc = "returned"
        /\ thread[l].why = "flag"
        /\ thread[l].result = "Ok"
        /\ ForEach(unit, thread[l].calls + 1) = "Err1"

\* C10: every cancel() leaves the flag false, and a cancel() on a flag that
\* was cancelled before changes nothing: not the flag, the loop thread, the
\* Handle, or any Canceller, so it allows what the first one alone allows.
C10_CancelIdempotent ==
    [][\A a \in 1..Len(heap) :
          cancelled'[a].n = cancelled[a].n + 1
          => /\ heap'[a] = FALSE
             /\ cancelled[a].n >= 1
                  => /\ heap' = heap
                     /\ UNCHANGED <<unit, unit2, run, thread, handle, cancellers, origin,
                                    listener>>
                     /\ cancelled' = [cancelled EXCEPT ![a].n = cancelled[a].n + 1]]_vars

\* Two cancel() calls were made on the flag of a loop that has returned.
C10_Witness ==
    \E l \in LoopIds :
        /\ Spawned(l)
        /\ CancelOf(l).n >= 2
        /\ heap[thread[l].keep_running] = FALSE
        /\ thread[l].pc = "returned"

\* C11: the Handle's own Canceller, every Canceller that canceller() returned
\* and every clone hold the address of the one flag the spawn allocated, the
\* flag its loop thread reads; canceller() and clone allocate no flag and
\* change neither a flag nor the loop; and a cancel() through any of them
\* sets that flag to false and does nothing else, as one on the Handle does.
C11_OneFlagPerSpawn ==
    /\ [](\A l \in LoopIds :
            Spawned(l) => handle[l].canceller = thread[l].keep_running)
    /\ [](\A c \in CancellerIds :
            cancellers[c] # 0
            => \E l \in LoopIds : Spawned(l) /\ cancellers[c] = thread[l].keep_running)
    /\ [](Len(heap) = Cardinality({l \in LoopIds : Spawned(l)}))
    /\ [][cancellers' # cancellers
            => UNCHANGED <<heap, thread, handle, cancelled, run>>]_vars
    /\ [][\A l \in LoopIds :
            (Spawned(l) /\ CancelOf(l)' # CancelOf(l))
            => /\ heap' = [heap EXCEPT ![thread[l].keep_running] = FALSE]
               /\ UNCHANGED <<thread, handle, cancellers, run>>]_vars

\* A clone of a Canceller that canceller() returned made the first cancel();
\* the loop read the flag false and returned.
C11_Witness ==
    \E l \in LoopIds :
        /\ Spawned(l)
        /\ origin[1] = "canceller"
        /\ origin[2] = "clone"
        /\ CancelOf(l).n >= 1
        /\ CancelOf(l).via = "clone"
        /\ thread[l].pc = "returned"
        /\ thread[l].why = "flag"

\* C12 as claimed, for the Service that blocks on an event: when cancel() was
\* called with no event waiting, exactly one event was sent afterwards and the
\* loop has terminated, the loop has processed exactly that one event and its
\* result is Ok(()).
C12_ExactlyOneMoreEvent ==
    \A l \in LoopIds :
        (/\ unit.blocks
         /\ Spawned(l)
         /\ CancelOf(l).n >= 1
         /\ CancelOf(l).pending = 0
         /\ listener[l].sent = CancelOf(l).sent + 1
         /\ Terminated(l))
        => /\ thread[l].completed = CancelOf(l).completed + 1
           /\ thread[l].result = "Ok"

\* C12, amended: the loop processes at most one event after the cancel():
\* exactly one when the cancel() came after the flag check of the call that
\* waits for the event (the call was in flight or about to begin), none when
\* it came before that flag check; either way the loop then terminates with
\* Ok(()) without processing a second event, and wait() returns Ok(()).
C12_AtMostOneMoreEvent ==
    /\ [](\A l \in LoopIds :
            (unit.blocks /\ Spawned(l) /\ CancelOf(l).n >= 1 /\ CancelOf(l).pending = 0)
            => /\ thread[l].completed <= CancelOf(l).completed + 1
               /\ CancelOf(l).pc = "check"
                    => thread[l].completed = CancelOf(l).completed
               /\ (CancelOf(l).pc \in {"checked", "in_for_each"} /\ Terminated(l))
                    => /\ thread[l].completed = CancelOf(l).completed + 1
                       /\ listener[l].sent >= CancelOf(l).sent + 1
               /\ Terminated(l)
                    => /\ thread[l].pc = "returned"
                       /\ thread[l].why = "flag"
                       /\ thread[l].result = "Ok"
               /\ handle[l].state # "panicked"
               /\ handle[l].state = "returned" => handle[l].result = "Ok")
    /\ \A l \in LoopIds :
          /\ (/\ unit.blocks
              /\ Spawned(l)
              /\ CancelOf(l).n >= 1
              /\ listener[l].sent > CancelOf(l).sent) ~> Terminated(l)
          /\ (/\ unit.blocks
              /\ Spawned(l)
              /\ CancelOf(l).n >= 1
              /\ listener[l].sent > CancelOf(l).sent
              /\ handle[l].state = "joining") ~> handle[l].state = "returned"

\* As in it_cancels: two events processed, cancel() while the third call
\* waits, one more event, which is processed; then wait() returns Ok(()).
C12_Witness ==
    \E l \in LoopIds :
        /\ unit.blocks
        /\ Spawned(l)
        /\ CancelOf(l).n >= 1
        /\ CancelOf(l).via = "handle"
        /\ CancelOf(l).pc = "in_for_each"
        /\ CancelOf(l).completed = 2
        /\ CancelOf(l).pending = 0
        /\ listener[l].sent = 3
        /\ thread[l].completed = 3
        /\ handle[l].state = "returned"
        /\ handle[l].result = "Ok"

\* What a loop on the work unit returns when it is never cancelled, once the
\* unit's last result is Break or Err(e).
UncancelledResult == IF unit.last \in Errors THEN unit.last ELSE "Ok"

\* C13: a cancel() on a loop that has terminated changes only the flag: it
\* starts no for_each call, raises nothing, and leaves the thread's result,
\* the Handle and every Canceller as they were; a terminated thread never
\* changes again, and a wait() after such a cancel() returns the thread's
\* result, which after a termination without cancel is the work unit's own.
C13_CancelAfterTermination ==
    /\ [][\A l \in LoopIds :
            (Terminated(l) /\ CancelOf(l)' # CancelOf(l))
            => /\ UNCHANGED <<thread, handle, run, cancellers, listener>>
               /\ heap' = [heap EXCEPT ![thread[l].keep_running] = FALSE]]_vars
    /\ [][\A l \in LoopIds : Terminated(l) => thread'[l] = thread[l]]_vars
    /\ [](\A l \in LoopIds :
            (Spawned(l) /\ CancelOf(l).n >= 1
                /\ CancelOf(l).pc \in {"returned", "panicked"})
            => /\ thread[l].pc = CancelOf(l).pc
               /\ thread[l].calls = CancelOf(l).calls
               /\ thread[l].completed = CancelOf(l).calls
               /\ thread[l].calls = unit.conts + 1
               /\ thread[l].pc = "returned" => thread[l].result = UncancelledResult
               /\ handle[l].state = "returned"
                    => /\ thread[l].pc = "returned"
                       /\ handle[l].result = UncancelledResult
               /\ handle[l].state = "panicked" => thread[l].pc = "panicked")

\* The loop had returned Err2 when a Canceller made the first cancel(); the
\* wait() that followed returned Err2.
C13_Witness ==
    \E l \in LoopIds :
        /\ Spawned(l)
        /\ CancelOf(l).n >= 1
        /\ CancelOf(l).pc = "returned"
        /\ CancelOf(l).via = "canceller"
        /\ ~CancelOf(l).waiting
        /\ heap[thread[l].keep_running] = FALSE
        /\ handle[l].state = "returned"
        /\ handle[l].result = "Err2"

\* C14: run() knows no cancellation: no cancel() on any flag changes the state
\* of run(); while every result is Continue it goes on calling for_each
\* whatever the flags hold, and it returns only on the call that gave Break
\* or Err(e), with the result of that call.
C14_RunIgnoresCancel ==
    /\ [][(\E a \in 1..Len(heap) : cancelled'[a] # cancelled[a]) => run' = run]_vars
    /\ [][(run.pc = "loop" /\ run' # run)
            => /\ run'.pc = "in_for_each"
               /\ run'.calls = run.calls]_vars
    /\ [][(run.pc = "in_for_each" /\ run' # run)
            => /\ run'.calls = run.calls + 1
               /\ run'.pc = "loop" <=> ForEach(unit, run'.calls) = "Continue"]_vars
    /\ [](run.pc = "returned"
            => /\ run.calls = unit.conts + 1
               /\ unit.last \in {"Break"} \cup Errors
               /\ run.result = UncancelledResult)
    /\ [](run.pc = "loop" => \A i \in 1..run.calls : ForEach(unit, i) = "Continue")
    /\ []((run.pc = "loop" /\ run.calls < MaxCalls) => ENABLED RunForEachBegin)
    /\ []((run.pc = "in_for_each" /\ (unit.blocks => listener[RunId].pending > 0))
            => ENABLED RunForEachEnd)

\* The spawned loop was cancelled before its first call and returned; run()
\* on the same kind of Service has made three calls and still loops.
C14_Witness ==
    \E l \in LoopIds :
        /\ Spawned(l)
        /\ CancelOf(l).n >= 1
        /\ thread[l].pc = "returned"
        /\ thread[l].calls = 0
        /\ unit.last = "Continue"
        /\ run.pc = "loop"
        /\ run.calls = 3

\* C15: spawn() allocates a new flag holding true and starts the loop thread
\* at its flag check with no call made; a for_each call begins only from a
\* flag check that read true, one call per check; a check that reads false
\* makes no call and returns Ok(()); so a cancel() before the first check
\* gives zero calls and wait() returns Ok(()).
C15_FlagCheckedBeforeEachCall ==
    /\ [][\A l \in LoopIds :
            (~Spawned(l) /\ Spawned(l)')
            => /\ heap' = Append(heap, TRUE)
               /\ thread'[l].keep_running = Len(heap')
               /\ thread'[l].pc = "check"
               /\ thread'[l].calls = 0]_vars
    /\ [][\A l \in LoopIds :
            thread'[l].calls # thread[l].calls
            => /\ thread[l].pc = "checked"
               /\ thread'[l].pc = "in_for_each"
               /\ thread'[l].calls = thread[l].calls + 1]_vars
    /\ [][\A l \in LoopIds :
            (thread'[l].pc = "checked" /\ thread[l].pc # "checked")
            => /\ thread[l].pc = "check"
               /\ heap[thread[l].keep_running]]_vars
    /\ [][\A l \in LoopIds :
            (thread[l].pc = "check" /\ thread'[l] # thread[l]
                /\ ~heap[thread[l].keep_running])
            => thread'[l] = [thread[l] EXCEPT !.pc = "returned", !.result = "Ok",
                                              !.why = "flag"]]_vars
    /\ [](\A l \in LoopIds :
            (Spawned(l) /\ CancelOf(l).n >= 1
                /\ CancelOf(l).pc = "check" /\ CancelOf(l).calls = 0)
            => /\ thread[l].calls = 0
               /\ thread[l].pc \in {"check", "returned"}
               /\ handle[l].state # "panicked"
               /\ handle[l].state = "returned" => handle[l].result = "Ok")

\* cancel() before the first flag check of a loop whose first call would have
\* returned Err1: no call, wait() returned Ok(()).
C15_Witness ==
    \E l \in LoopIds :
        /\ Spawned(l)
        /\ CancelOf(l).n >= 1
        /\ CancelOf(l).pc = "check"
        /\ CancelOf(l).calls = 0
        /\ ForEach(unit, 1) = "Err1"
        /\ thread[l].calls = 0
        /\ handle[l].state = "returned"
        /\ handle[l].result = "Ok"

\* C16: a spawned loop on which cancel() was never called does what run()
\* does on the same work unit: it makes the same for_each calls (neither has
\* made more calls than the other once that one has ended), it ends only on
\* Break, Err(e) or a panic of the unit, and the thread's result and what
\* wait() returns are what run() returns.
C16_SpawnRefinesRun ==
    \A l \in LoopIds :
        (Spawned(l) /\ CancelOf(l).n = 0)
        => /\ heap[thread[l].keep_running]
           /\ \A i \in 1..(thread[l].calls - 1) : ForEach(unit, i) = "Continue"
           /\ thread[l].pc = "returned"
                => /\ thread[l].why \in {"break", "err"}
                   /\ thread[l].calls = unit.conts + 1
                   /\ thread[l].completed = thread[l].calls
                   /\ thread[l].result = UncancelledResult
           /\ thread[l].pc = "panicked"
                => /\ unit.last = "Panic"
                   /\ thread[l].calls = unit.conts + 1
           /\ (~Terminated(l) /\ thread[l].pc # "in_for_each")
                => ForEach(unit, thread[l].calls) = "Continue" \/ thread[l].calls = 0
           /\ run.pc \in {"returned", "panicked"} => thread[l].calls <= run.calls
           /\ Terminated(l) => run.calls <= thread[l].calls
           /\ (Terminated(l) /\ run.pc \in {"returned", "panicked"})
                => /\ thread[l].pc = run.pc
                   /\ thread[l].calls = run.calls
                   /\ thread[l].result = run.result
                   /\ thread[l].payload = run.payload
           /\ (handle[l].state = "returned" /\ run.pc \in {"returned", "panicked"})
                => /\ run.pc = "returned"
                   /\ handle[l].result = run.result

\* Never cancelled: both run() and the spawned loop made three calls, and
\* wait() returned the Err1 that run() returned.
C16_Witness ==
    \E l \in LoopIds :
        /\ Spawned(l)
        /\ CancelOf(l).n = 0
        /\ run.pc = "returned"
        /\ run.calls = 3
        /\ run.result = "Err1"
        /\ thread[l].calls = 3
        /\ handle[l].state = "returned"
        /\ handle[l].result = "Err1"

\* C17: a flag holds true from spawn() until the first cancel() on it and
\* false ever after: the only step that changes an allocated flag is a
\* cancel(), from true to false; a flag that is false stays false; spawn()
\* allocates one new flag holding true and touches no other; the loop thread,
\* canceller(), clone and wait() leave every flag as it is.
C17_FlagMonotonic ==
    /\ [][\A a \in 1..Len(heap) :
            /\ Len(heap') >= Len(heap)
            /\ heap'[a] # heap[a]
                 => /\ heap[a]
                    /\ ~heap'[a]
                    /\ cancelled'[a].n = cancelled[a].n + 1
            /\ ~heap[a] => ~heap'[a]]_vars
    /\ [][Len(heap') # Len(heap) => heap' = Append(heap, TRUE)]_vars
    /\ [][(Len(heap') = Len(heap)
             /\ (thread' # thread \/ handle' # handle \/ cancellers' # cancellers))
            => heap' = heap]_vars
    /\ [](\A a \in 1..Len(heap) : heap[a] <=> cancelled[a].n = 0)

\* The flag was cancelled twice and is false after the loop thread read it,
\* a Canceller was made and cloned, and wait() has returned.
C17_Witness ==
    \E l \in LoopIds :
        /\ Spawned(l)
        /\ CancelOf(l).n = 2
        /\ ~heap[thread[l].keep_running]
        /\ thread[l].why = "flag"
        /\ origin[2] = "clone"
        /\ handle[l].state = "returned"

\* C19: wait() requests no cancellation and has no timeout: calling it and
\* returning from it leave every flag and the cancel history as they are, and
\* for a spawned loop whose for_each always returns Ok(Continue) and on which
\* cancel() was never called the flag is true, the loop thread has not
\* terminated and wait() has not returned.
C19_WaitNeverCancels ==
    /\ [][\A l \in LoopIds :
            (handle[l].state \in {"held", "joining"}
               /\ handle'[l].state # handle[l].state)
            => (heap' = heap /\ cancelled' = cancelled /\ thread' = thread)]_vars
    /\ [](\A l \in LoopIds :
            (Spawned(l) /\ unit.last = "Continue" /\ CancelOf(l).n = 0)
            => /\ heap[thread[l].keep_running]
               /\ ~Terminated(l)
               /\ handle[l].state \in {"held", "joining"})

\* wait() is blocked on a loop that always continues and was never cancelled,
\* and the loop thread has made every call the bound allows.
C19_Witness ==
    \E l \in LoopIds :
        /\ Spawned(l)
        /\ unit.last = "Continue"
        /\ CancelOf(l).n = 0
        /\ handle[l].state = "joining"
        /\ thread[l].completed = MaxCalls
        /\ thread[l].pc = "check"

\* C18: every spawn() has a flag of its own and one loop thread on it: two
\* spawned loops never share a flag; a cancel() on the flag of one loop leaves
\* every other flag, every thread and every Handle as they are; and a loop on
\* which cancel() was never called keeps a true flag, is never stopped by the
\* flag and ends only with the terminal result of its own work unit, whatever
\* was done to the other loop.
C18_CancelIsPerLoop ==
    /\ [](\A l \in LoopIds : \A m \in LoopIds :
            (Spawned(l) /\ Spawned(m) /\ l # m)
            => thread[l].keep_running # thread[m].keep_running)
    /\ [](\A l \in LoopIds :
            Spawned(l) => handle[l].canceller = thread[l].keep_running)
    /\ [][\A a \in 1..Len(heap) :
            cancelled'[a] # cancelled[a]
            => /\ \A b \in 1..Len(heap) : b # a => heap'[b] = heap[b]
               /\ thread' = thread
               /\ handle' = handle]_vars
    /\ [](\A m \in LoopIds :
            (Spawned(m) /\ CancelOf(m).n = 0)
            => /\ heap[thread[m].keep_running]
               /\ thread[m].why # "flag"
               /\ \A i \in 1..thread[m].completed :
                      i < thread[m].completed => ForEach(UnitOf(m), i) = "Continue"
               /\ Terminated(m)
                    => /\ thread[m].completed = thread[m].calls
                       /\ ForEach(UnitOf(m), thread[m].calls) # "Continue"
                       /\ thread[m].result =
                            IF ForEach(UnitOf(m), thread[m].calls) = "Break"
                            THEN "Ok" ELSE ForEach(UnitOf(m), thread[m].calls)
               /\ ~Terminated(m)
                    => \A i \in 1..thread[m].completed :
                           ForEach(UnitOf(m), i) = "Continue")

\* Two loops were spawned; one was cancelled through a Canceller before its
\* first call and has stopped on the flag; the other, never cancelled, ran to
\* the Break of its own work unit after a Continue.
C18_Witness ==
    \E l \in LoopIds : \E m \in LoopIds :
        /\ l # m
        /\ Spawned(l)
        /\ Spawned(m)
        /\ CancelOf(l).n > 0
        /\ thread[l].why = "flag"
        /\ thread[l].completed = 0
        /\ CancelOf(l).via = "canceller"
        /\ CancelOf(m).n = 0
        /\ heap[thread[m].keep_running]
        /\ thread[m].why = "break"
        /\ thread[m].completed >= 2

====
